---- MODULE Spec2Model ----
(***************************************************************************)
(* S3LocationSyncRatchet (src/unnamed/part_001, lines 42-224): one        *)
(* synchronizer object, the two object stores it talks to, and its caller. *)
(*                                                                         *)
(* Keys are strings, written as sequences of one-character strings.  The   *)
(* stores are the environment: they change only through the calls of the   *)
(* synchronizer and, while no call is running, through the caller's own    *)
(* writes (PutSrc, DelSrc, PutDst).  A store call that fails leaves the    *)
(* store as it was.  The alphabet has no "$", so the replacement patterns  *)
(* of String.prototype.replace are not exercised.                          *)
(***************************************************************************)
EXTENDS Integers, Sequences, FiniteSets, TLC

VARIABLES
    config,      \* this.config: [maxNumThreads, maxRetries] after the constructor
    now,         \* the stores' clock (LastModified stamps)
    srcStore,    \* source bucket: key -> object or NoObj
    dstStore,    \* destination bucket: key -> object or NoObj
    pc,          \* where the running call is: "idle", "compare", "copyNeed", "copyDiff", "verify", "direct"
    getSrc,      \* the listObjects call on the source (compareSrcAndDst, line 184)
    getDst,      \* the listObjects call on the destination (line 185)
    cmpResult,   \* startSyncing's local cmpResult
    pending,     \* parameters the running runBoundedParallelSingleParam has not started yet
    inflight,    \* copyObject calls started and not finished: key -> [size, express, retries]
    lastResult,  \* how the last startSyncing ended ("true", "false", "threw"); "none" once the caller has written since
    hist,        \* history of the current (or last) call, for the properties only
    out,         \* what the last call made on its own gave its caller: a value, or an error thrown
    tokenString, \* the JWT string the caller holds (the last one createTokenString returned)
    es,          \* the EnvironmentService object: its cfg and its readPromiseCache
    promises     \* the promises of the getConfigUncached calls and of the getConfig calls

vars == <<config, now, srcStore, dstStore, pc, getSrc, getDst, cmpResult, pending, inflight, lastResult, hist, out, tokenString, es, promises>>

----------------------------------------------------------------------------
(* Bounds of the model *)

MaxClock == 2
PageSize == 2

(* Program constants *)

DefaultMaxNumThreads == 15
DefaultMaxRetries == 5

srcPrefix == <<"s">>
dstPrefix == <<"d">>

\* the store handles of the sync runs: one client serves both buckets, so the
\* destination store can copy from the source bucket by itself
srcS3 == "s3"
dstS3 == "s3"

----------------------------------------------------------------------------
(* Strings *)

Alphabet == <<"a", "b", "c", "d", "s", "t">>

CharIdx(c) == CHOOSE i \in 1..Len(Alphabet) : Alphabet[i] = c

Min(a, b) == IF a <= b THEN a ELSE b

\* a < b in the stores' (lexicographic) listing order
KeyLess(a, b) ==
    \E i \in 1..(Min(Len(a), Len(b)) + 1) :
        /\ \A j \in 1..(i - 1) : a[j] = b[j]
        /\ \/ i = Len(a) + 1 /\ i <= Len(b)
           \/ i <= Len(a) /\ i <= Len(b) /\ CharIdx(a[i]) < CharIdx(b[i])

HasPrefix(k, p) == Len(p) <= Len(k) /\ SubSeq(k, 1, Len(p)) = p

\* str.replace(pat, rep) with a string pattern: the first occurrence only
StrReplace(str, pat, rep) ==
    LET hits == {i \in 1..(Len(str) + 1) :
                    i + Len(pat) - 1 <= Len(str) /\ SubSeq(str, i, i + Len(pat) - 1) = pat}
    IN  IF hits = {} THEN str
        ELSE LET i == CHOOSE h \in hits : \A g \in hits : h <= g
             IN  SubSeq(str, 1, i - 1) \o rep \o SubSeq(str, i + Len(pat), Len(str))

DstKeyOf(key) == StrReplace(key, srcPrefix, dstPrefix)

----------------------------------------------------------------------------
(* The stores *)

NoObj == [none |-> TRUE]

SrcKeys == {<<"s", "a">>, <<"s", "b">>, <<"t", "s">>}
DstKeys == {<<"d", "a">>, <<"d", "b">>, <<"d", "c">>, <<"t", "d">>}

\* Size is only compared for equality and handed on as ContentLength
Sizes == {1, 2}

S3Obj(key, o) == [Key |-> key, ETag |-> o.ETag, Size |-> o.Size, LastModified |-> o.LastModified]

RECURSIVE SortKeys(_)
SortKeys(S) ==
    IF S = {} THEN <<>>
    ELSE LET m == CHOOSE k \in S : \A o \in S \ {k} : KeyLess(k, o)
         IN  <<m>> \o SortKeys(S \ {m})

\* the keys a ListObjectsV2 call with Prefix = prefix enumerates, in order
Listed(store, prefix) == SortKeys({k \in DOMAIN store : store[k] # NoObj /\ HasPrefix(k, prefix)})

\* one ListObjectsV2 response: the page that starts after `tok` keys
ListPage(store, prefix, tok) ==
    LET ks == Listed(store, prefix)
        hi == Min(tok + PageSize, Len(ks))
    IN  [Contents |-> [i \in 1..(hi - tok) |-> S3Obj(ks[tok + i], store[ks[tok + i]])],
         IsTruncated |-> hi < Len(ks),
         NextContinuationToken |-> hi]

----------------------------------------------------------------------------
(* listObjects (lines 138-161) *)

NoToken == <<>>

TokenPos(token) == IF token = NoToken THEN 0 ELSE token[1]

HasKey(objs, key) == \E i \in 1..Len(objs) : objs[i].Key = key

GetKey(objs, key) == objs[CHOOSE i \in 1..Len(objs) : objs[i].Key = key]

SetKeyKeepingFirst(objs, o) == IF HasKey(objs, o.Key) THEN objs ELSE Append(objs, o)

\* rval[obj.Key] = {...}: a new key is appended (Object.keys keeps insertion
\* order), a key already there keeps its place and takes the new record
SetKey(objs, o) ==
    IF HasKey(objs, o.Key)
    THEN [i \in 1..Len(objs) |-> IF objs[i].Key = o.Key THEN o ELSE objs[i]]
    ELSE Append(objs, o)

RECURSIVE EachContents(_, _, _)
EachContents(rval, contents, i) ==
    IF i > Len(contents) THEN rval
    ELSE EachContents(SetKey(rval, contents[i]), contents, i + 1)

NoError == <<>>

ListIdle == [st |-> "idle", token |-> NoToken, rval |-> <<>>, err |-> NoError]

\* the call has been made: more = true, rval = {}, params without a token
ListStarted == [st |-> "run", token |-> NoToken, rval |-> <<>>, err |-> NoError]

\* one turn of the while loop whose listObjectsV2 call succeeds
ListAfterPage(l, store, prefix) ==
    LET response == ListPage(store, prefix, TokenPos(l.token))
        more == response.IsTruncated
    IN  [st |-> IF more THEN "run" ELSE "ok",
         token |-> IF more THEN <<response.NextContinuationToken>> ELSE l.token,
         rval |-> EachContents(l.rval, response.Contents, 1),
         err |-> l.err]

ListAfterErrorCaught(l) == [l EXCEPT !.st = "ok"]

ListAfterErrorRetried(l) == [l EXCEPT !.st = "run"]

\* one turn of the while loop whose listObjectsV2 call rejects: the await throws
ListAfterError(l) == [l EXCEPT !.st = "fail"]

----------------------------------------------------------------------------
(* compareSrcAndDst (lines 183-223) *)

EmptyCmp == [needCopy |-> <<>>, existed |-> <<>>, diff |-> <<>>]

ClassifyBySize(sObj, dstObjs) ==
    LET dstKey == DstKeyOf(sObj.Key)
    IN  IF ~HasKey(dstObjs, dstKey) THEN "needCopy"
        ELSE IF sObj.Size # GetKey(dstObjs, dstKey).Size THEN "diff"
        ELSE "existed"

ClassifyAbsentAsDiff(sObj, dstObjs) ==
    LET dstKey == DstKeyOf(sObj.Key)
    IN  IF ~HasKey(dstObjs, dstKey) THEN "diff"
        ELSE IF sObj.Size # GetKey(dstObjs, dstKey).Size THEN "diff"
        ELSE IF sObj.LastModified <= GetKey(dstObjs, dstKey).LastModified THEN "existed"
        ELSE "diff"

ClassifyTimestampFirst(sObj, dstObjs) ==
    LET dstKey == DstKeyOf(sObj.Key)
    IN  IF ~HasKey(dstObjs, dstKey) THEN "needCopy"
        ELSE IF sObj.LastModified <= GetKey(dstObjs, dstKey).LastModified THEN "existed"
        ELSE "diff"

ClassifyStrictlyOlder(sObj, dstObjs) ==
    LET dstKey == DstKeyOf(sObj.Key)
    IN  IF ~HasKey(dstObjs, dstKey) THEN "needCopy"
        ELSE IF sObj.Size # GetKey(dstObjs, dstKey).Size THEN "diff"
        ELSE IF sObj.LastModified < GetKey(dstObjs, dstKey).LastModified THEN "existed"
        ELSE "diff"

\* the callback of lines 197-217 for one source key
Classify(sObj, dstObjs) ==
    LET dstKey == DstKeyOf(sObj.Key)
    IN  IF ~HasKey(dstObjs, dstKey) THEN "needCopy"
        ELSE IF sObj.Size # GetKey(dstObjs, dstKey).Size THEN "diff"
        ELSE IF sObj.LastModified <= GetKey(dstObjs, dstKey).LastModified THEN "existed"
        ELSE "diff"

RECURSIVE CompareFrom(_, _, _, _)
CompareFrom(srcObjs, dstObjs, i, rval) ==
    IF i > Len(srcObjs) THEN rval
    ELSE LET c == Classify(srcObjs[i], dstObjs)
         IN  CompareFrom(srcObjs, dstObjs, i + 1,
                         [rval EXCEPT ![c] = Append(rval[c], srcObjs[i])])

\* the callback is synchronous, so the keys are classified in Object.keys order
Compare(srcObjs, dstObjs) == CompareFrom(srcObjs, dstObjs, 1, EmptyCmp)

KeysOf(objs) == {objs[i].Key : i \in 1..Len(objs)}

----------------------------------------------------------------------------
(* constructor (lines 74-86) *)

Undefined == <<>>

FalsyUndefinedOnly(v) == v = Undefined

\* !v for an optional number: undefined and 0 are falsy
Falsy(v) == v = Undefined \/ v[1] = 0

Constructed(cfg) ==
    [maxNumThreads |-> IF Falsy(cfg.maxNumThreads) THEN DefaultMaxNumThreads ELSE cfg.maxNumThreads[1],
     maxRetries |-> IF Falsy(cfg.maxRetries) THEN DefaultMaxRetries ELSE cfg.maxRetries[1]]

\* values of an optional field of the configuration
OptionInputs == {Undefined, <<0>>, <<1>>, <<2>>}

\* the configurations the synchronizer of the sync runs is constructed with
ConfigInputs == [maxNumThreads : {Undefined, <<1>>}, maxRetries : {<<2>>}]

\* the configurations the synchronizer of the lone copyObject calls is constructed with
CopyConfigInputs == [maxNumThreads : {Undefined}, maxRetries : OptionInputs]

----------------------------------------------------------------------------
(* State *)

SyncPcs == {"compare", "copyNeed", "copyDiff", "verify"}

\* what a call gives its caller: nothing yet, the value it returns (or its
\* promise resolves with), or the error it throws (or its promise rejects with)
NoOut == [kind |-> "none"]

\* the caller holds no JWT string
NoJwt == [none |-> TRUE]

\* no EnvironmentService has been constructed, and so no promise of one
NoService == [none |-> TRUE]

NoPromises == [uncached |-> <<>>, returned |-> <<>>]

Returns(value) == [kind |-> "returned", value |-> value]

Throws(error) == [kind |-> "threw", error |-> error]

\* one copyObject call as the properties see it: the strategy it was asked
\* for, the attempts made and their strategies, whether one succeeded, whether
\* the call has resolved
NoCall == [asked |-> {}, n |-> 0, ok |-> FALSE, done |-> FALSE, kinds |-> {}]

Called(express, done) == [NoCall EXCEPT !.asked = {express}, !.done = done]

NoTasks == [k \in {} |-> NoCall]

HistInit ==
    [compares |-> 0,          \* compares this run has completed
     initCmp |-> EmptyCmp,    \* the result of this run's first compare
     calls |-> [k \in SrcKeys |-> NoCall],  \* this run's copyObject call per key
     listFailed |-> "no",     \* the phase in which a listing call of this run rejected
     dstAtStart |-> [k \in DstKeys |-> NoObj],  \* the destination when the run began
     prev |-> "none",         \* how the run before this one ended, "none" if the caller has written since
     srcKept |-> FALSE,       \* no call is running, the last one returned true, no write to the source since
     afterTrue |-> FALSE,     \* srcKept when this run began
     exhausted |-> {}]        \* keys whose last copyObject call failed every attempt, nothing changed since

\* what the buckets hold when the synchronizer is constructed: the source an
\* object outside the prefix and perhaps one under it, the destination
\* perhaps that one's counterpart
OldObj(etag) == [ETag |-> etag, Size |-> 1, LastModified |-> 0]

InitialSrcStores ==
    {[k \in SrcKeys |-> IF k \in present THEN OldObj("x") ELSE NoObj] :
        present \in {{<<"t", "s">>}, {<<"t", "s">>, <<"s", "a">>}}}

InitialDstStores ==
    {[k \in DstKeys |-> IF k \in present THEN OldObj("y") ELSE NoObj] :
        present \in {{}, {<<"d", "a">>}}}

\* the keys the caller writes to: the source keys under the prefix, and at the
\* destination the counterpart of one of them and a key that has none
SrcWritten == {k \in SrcKeys : HasPrefix(k, srcPrefix)}
DstWritten == {<<"d", "a">>, <<"d", "c">>}

Init ==
    /\ \E cfg \in ConfigInputs : config = Constructed(cfg)
    /\ now = 0
    /\ srcStore \in InitialSrcStores
    /\ dstStore \in InitialDstStores
    /\ pc = "idle"
    /\ getSrc = ListIdle
    /\ getDst = ListIdle
    /\ cmpResult = EmptyCmp
    /\ pending = <<>>
    /\ inflight = NoTasks
    /\ lastResult = "none"
    /\ hist = HistInit
    /\ out = NoOut
    /\ tokenString = NoJwt
    /\ es = NoService
    /\ promises = NoPromises

----------------------------------------------------------------------------
(* The caller's own writes to the stores, between calls *)

\* what the last call left behind is forgotten once the caller writes
Forgotten ==
    /\ hist' = HistInit
    /\ cmpResult' = EmptyCmp
    /\ lastResult' = "none"

PutSrc(k, size) ==
    /\ pc = "idle"
    /\ now < MaxClock
    /\ now' = now + 1
    /\ srcStore' = [srcStore EXCEPT ![k] = [ETag |-> "x", Size |-> size, LastModified |-> now + 1]]
    /\ Forgotten
    /\ UNCHANGED <<es, promises, tokenString, out, config, dstStore, pc, getSrc, getDst, pending, inflight>>

DelSrc(k) ==
    /\ pc = "idle"
    /\ srcStore[k] # NoObj
    /\ srcStore' = [srcStore EXCEPT ![k] = NoObj]
    /\ Forgotten
    /\ UNCHANGED <<es, promises, tokenString, out, config, now, dstStore, pc, getSrc, getDst, pending, inflight>>

PutDst(k, size) ==
    /\ pc = "idle"
    /\ now < MaxClock
    /\ now' = now + 1
    /\ dstStore' = [dstStore EXCEPT ![k] = [ETag |-> "y", Size |-> size, LastModified |-> now + 1]]
    /\ hist' = [HistInit EXCEPT !.srcKept = hist.srcKept]
    /\ cmpResult' = EmptyCmp
    /\ lastResult' = "none"
    /\ UNCHANGED <<es, promises, tokenString, out, config, srcStore, pc, getSrc, getDst, pending, inflight>>

----------------------------------------------------------------------------
(* startSyncing (lines 163-181) *)

\* the call runs to its first await: compareSrcAndDst has started both listings
StartSyncing ==
    /\ pc = "idle"
    /\ pc' = "compare"
    /\ getSrc' = ListStarted
    /\ getDst' = ListStarted
    /\ cmpResult' = EmptyCmp
    /\ hist' = [hist EXCEPT !.compares = 0,
                            !.initCmp = EmptyCmp,
                            !.calls = [k \in SrcKeys |-> NoCall],
                            !.listFailed = "no",
                            !.dstAtStart = dstStore,
                            !.prev = lastResult,
                            !.srcKept = FALSE,
                            !.afterTrue = hist.srcKept]
    /\ UNCHANGED <<es, promises, tokenString, out, config, now, srcStore, dstStore, pending, inflight, lastResult>>

\* listObjects on the source: one page arrives
ListSrcPage ==
    /\ pc \in {"compare", "verify"}
    /\ getSrc.st = "run"
    /\ getSrc' = ListAfterPage(getSrc, srcStore, srcPrefix)
    /\ UNCHANGED <<es, promises, tokenString, out, config, now, srcStore, dstStore, pc, getDst, cmpResult, pending, inflight, lastResult, hist>>

ListSrcError ==
    /\ pc \in {"compare", "verify"}
    /\ getSrc.st = "run"
    /\ getSrc' = ListAfterError(getSrc)
    /\ hist' = [hist EXCEPT !.listFailed = pc]
    /\ UNCHANGED <<es, promises, tokenString, out, config, now, srcStore, dstStore, pc, getDst, cmpResult, pending, inflight, lastResult>>

ListDstPage ==
    /\ pc \in {"compare", "verify"}
    /\ getDst.st = "run"
    /\ getDst' = ListAfterPage(getDst, dstStore, dstPrefix)
    /\ UNCHANGED <<es, promises, tokenString, out, config, now, srcStore, dstStore, pc, getSrc, cmpResult, pending, inflight, lastResult, hist>>

ListDstError ==
    /\ pc \in {"compare", "verify"}
    /\ getDst.st = "run"
    /\ getDst' = ListAfterError(getDst)
    /\ hist' = [hist EXCEPT !.listFailed = pc]
    /\ UNCHANGED <<es, promises, tokenString, out, config, now, srcStore, dstStore, pc, getSrc, cmpResult, pending, inflight, lastResult>>

ListingRejectedSrcOnly == getSrc.st = "fail"

\* `await getSrc` (line 187) throws, or `await getDst` (line 188) does: nothing
\* catches it in compareSrcAndDst or in startSyncing.  The other listing, if it
\* is still running, goes on unobserved.
ListingRejected == getSrc.st = "fail" \/ (getSrc.st = "ok" /\ getDst.st = "fail")

CompareThrows ==
    /\ pc \in {"compare", "verify"}
    /\ ListingRejected
    /\ pc' = "idle"
    /\ lastResult' = "threw"
    /\ getSrc' = ListIdle
    /\ getDst' = ListIdle
    /\ UNCHANGED <<es, promises, tokenString, out, config, now, srcStore, dstStore, cmpResult, pending, inflight, hist>>

NeedsCopyingNeedCopyOnly(cmp) == Len(cmp.needCopy) > 0

\* line 172
NeedsCopying(cmp) == Len(cmp.needCopy) > 0 \/ Len(cmp.diff) > 0

ConvergedNeedCopyOnly(cmp) == Len(cmp.needCopy) = 0

ConvergedDiffOnly(cmp) == Len(cmp.diff) = 0

ConvergedEither(cmp) == Len(cmp.needCopy) = 0 \/ Len(cmp.diff) = 0

\* line 180
Converged(cmp) == Len(cmp.needCopy) = 0 /\ Len(cmp.diff) = 0

ResultOf(cmp) == IF Converged(cmp) THEN "true" ELSE "false"

\* line 170: the first compare ends; lines 172-173 or line 180 follow
CompareInitial ==
    /\ pc = "compare"
    /\ getSrc.st = "ok" /\ getDst.st = "ok"
    /\ LET cmp == Compare(getSrc.rval, getDst.rval)
       IN  /\ cmpResult' = cmp
           /\ hist' = [hist EXCEPT !.compares = 1, !.initCmp = cmp, !.srcKept = Converged(cmp)]
           /\ IF NeedsCopying(cmp)
              THEN /\ pc' = "copyNeed"
                   /\ pending' = cmp.needCopy
                   /\ UNCHANGED lastResult
              ELSE /\ pc' = "idle"
                   /\ lastResult' = ResultOf(cmp)
                   /\ UNCHANGED pending
    /\ getSrc' = ListIdle
    /\ getDst' = ListIdle
    /\ UNCHANGED <<es, promises, tokenString, out, config, now, srcStore, dstStore, inflight>>

\* as CompareVerify, taking the copies on trust instead of comparing again
CompareVerifyTrusting ==
    /\ pc = "verify"
    /\ getSrc.st = "ok" /\ getDst.st = "ok"
    /\ hist' = [hist EXCEPT !.compares = 2, !.srcKept = TRUE]
    /\ lastResult' = "true"
    /\ pc' = "idle"
    /\ getSrc' = ListIdle
    /\ getDst' = ListIdle
    /\ UNCHANGED <<es, promises, tokenString, out, config, now, srcStore, dstStore, cmpResult, pending, inflight>>

\* line 177: the second compare ends; line 180 follows
CompareVerify ==
    /\ pc = "verify"
    /\ getSrc.st = "ok" /\ getDst.st = "ok"
    /\ LET cmp == Compare(getSrc.rval, getDst.rval)
       IN  /\ cmpResult' = cmp
           /\ hist' = [hist EXCEPT !.compares = 2, !.srcKept = Converged(cmp)]
           /\ lastResult' = ResultOf(cmp)
    /\ pc' = "idle"
    /\ getSrc' = ListIdle
    /\ getDst' = ListIdle
    /\ UNCHANGED <<es, promises, tokenString, out, config, now, srcStore, dstStore, pending, inflight>>

----------------------------------------------------------------------------
(* PromiseRatchet.runBoundedParallelSingleParam: a pool that runs the        *)
(* function on every parameter, at most maxConcurrent calls at a time, and   *)
(* resolves when all of them have                                            *)

PoolMayStart(maxConcurrent) == pending # <<>> /\ Cardinality(DOMAIN inflight) < maxConcurrent

PoolResolved == pending = <<>> /\ DOMAIN inflight = {}

----------------------------------------------------------------------------
(* copyObject (lines 96-136) *)

\* lines 96-100: the call begins; with retries = 0 the loop is entered when
\* 0 < maxRetries, and the first transfer call is then awaited
NewTask(size, express) == [size |-> size, express |-> express, retries |-> 0]

LoopEntered == 0 < config.maxRetries

\* the store performs the transfer asked for: a server-side copy takes the
\* source object as it is, an upload takes the source's bytes and needs
\* ContentLength to be their number
StoreAccepts(key, t) ==
    /\ srcStore[key] # NoObj
    /\ t.express \/ srcStore[key].Size = t.size

Written(key, t) ==
    [ETag |-> srcStore[key].ETag,
     Size |-> IF t.express THEN srcStore[key].Size ELSE t.size,
     LastModified |-> now]

Without(f, key) == [k \in DOMAIN f \ {key} |-> f[k]]

With(f, key, v) == [k \in DOMAIN f \cup {key} |-> IF k = key THEN v ELSE f[k]]

\* lines 104-123: the awaited transfer resolves, completedCopying = true, the
\* loop ends and the call resolves
CopyAttemptDone(key) ==
    /\ pc \in {"copyNeed", "copyDiff", "direct"}
    /\ key \in DOMAIN inflight
    /\ StoreAccepts(key, inflight[key])
    /\ dstStore' = [dstStore EXCEPT ![DstKeyOf(key)] = Written(key, inflight[key])]
    /\ inflight' = Without(inflight, key)
    /\ hist' = [hist EXCEPT !.calls[key] = [@ EXCEPT !.n = @ + 1, !.ok = TRUE, !.done = TRUE,
                                                      !.kinds = @ \cup {inflight[key].express}]]
    /\ UNCHANGED <<es, promises, tokenString, out, config, now, srcStore, pc, getSrc, getDst, cmpResult, pending, lastResult>>

LoopGoesOnOnceMore(retries) == retries <= config.maxRetries

\* the loop condition of line 100 after `retries` failures
LoopGoesOn(retries) == retries < config.maxRetries

\* lines 124-131: the awaited transfer rejects, retries++; the loop goes on
\* with the same strategy or ends, and then the call resolves all the same
CopyAttemptFailed(key) ==
    /\ pc \in {"copyNeed", "copyDiff", "direct"}
    /\ key \in DOMAIN inflight
    /\ LET t == inflight[key]
           goesOn == LoopGoesOn(t.retries + 1)
       IN  /\ inflight' = IF goesOn THEN [inflight EXCEPT ![key].retries = t.retries + 1]
                          ELSE Without(inflight, key)
           /\ hist' = [hist EXCEPT !.calls[key] = [@ EXCEPT !.n = @ + 1, !.done = ~goesOn,
                                                             !.kinds = @ \cup {t.express}],
                                   !.exhausted = IF goesOn THEN @ ELSE @ \cup {key}]
    /\ UNCHANGED <<es, promises, tokenString, out, config, now, srcStore, dstStore, pc, getSrc, getDst, cmpResult, pending, lastResult>>

----------------------------------------------------------------------------
(* startSyncing, lines 166-177: the two copy passes *)

CopyWidthOfList == Len(pending) + Cardinality(DOMAIN inflight)

\* the pool's width in lines 173 and 174
CopyWidth == config.maxNumThreads

CpTaskExpress(obj) == NewTask(obj.Size, TRUE)

\* cp (lines 166-168): copyObject(obj.Key, obj.Size), express left to its default
CpTask(obj) == NewTask(obj.Size, FALSE)

\* the pool starts cp on its next parameter
CopyStart ==
    /\ pc \in {"copyNeed", "copyDiff"}
    /\ PoolMayStart(CopyWidth)
    /\ LET obj == Head(pending)
       IN  /\ pending' = Tail(pending)
           /\ inflight' = IF LoopEntered THEN With(inflight, obj.Key, CpTask(obj)) ELSE inflight
           /\ hist' = [hist EXCEPT !.calls[obj.Key] = Called(CpTask(obj).express, ~LoopEntered),
                                   !.exhausted = IF LoopEntered THEN @ \ {obj.Key} ELSE @ \cup {obj.Key}]
    /\ UNCHANGED <<es, promises, tokenString, out, config, now, srcStore, dstStore, pc, getSrc, getDst, cmpResult, lastResult>>

SecondPassNeedCopyAgain(cmp) == cmp.needCopy

SecondPassAll(cmp) == cmp.needCopy \o cmp.diff

SecondPassWithExisted(cmp) == cmp.diff \o cmp.existed

\* what line 174 hands to the pool
SecondPass(cmp) == cmp.diff

\* line 173 resolves: line 174 starts the pool on cmpResult.diff
NeedCopyDone ==
    /\ pc = "copyNeed"
    /\ PoolResolved
    /\ pc' = "copyDiff"
    /\ pending' = SecondPass(cmpResult)
    /\ UNCHANGED <<es, promises, tokenString, out, config, now, srcStore, dstStore, getSrc, getDst, cmpResult, inflight, lastResult, hist>>

\* as DiffDone, after removing the destination objects that have no source object
DiffDoneMirroring ==
    /\ pc = "copyDiff"
    /\ PoolResolved
    /\ pc' = "verify"
    /\ getSrc' = ListStarted
    /\ getDst' = ListStarted
    /\ dstStore' = [dk \in DstKeys |->
                        IF HasPrefix(dk, dstPrefix)
                           /\ \A k \in SrcKeys : srcStore[k] = NoObj \/ DstKeyOf(k) # dk
                        THEN NoObj ELSE dstStore[dk]]
    /\ UNCHANGED <<es, promises, tokenString, out, config, now, srcStore, cmpResult, pending, inflight, lastResult, hist>>

\* line 174 resolves: line 177 starts the verification compare
DiffDone ==
    /\ pc = "copyDiff"
    /\ PoolResolved
    /\ pc' = "verify"
    /\ getSrc' = ListStarted
    /\ getDst' = ListStarted
    /\ UNCHANGED <<es, promises, tokenString, out, config, now, srcStore, dstStore, cmpResult, pending, inflight, lastResult, hist>>

----------------------------------------------------------------------------
(* The synchronizer and its caller *)

Next ==
    \/ \E k \in SrcWritten, size \in Sizes : PutSrc(k, size)
    \/ \E k \in SrcWritten : DelSrc(k)
    \/ \E k \in DstWritten, size \in Sizes : PutDst(k, size)
    \/ StartSyncing
    \/ ListSrcPage
    \/ ListSrcError
    \/ ListDstPage
    \/ ListDstError
    \/ CompareThrows
    \/ CompareInitial
    \/ CompareVerify
    \/ CopyStart
    \/ \E k \in SrcKeys : CopyAttemptDone(k)
    \/ \E k \in SrcKeys : CopyAttemptFailed(k)
    \/ NeedCopyDone
    \/ DiffDone

Spec == Init /\ [][Next]_vars

----------------------------------------------------------------------------
(* copyObject called on its own (it is public), with either strategy *)

CopyObject(key, size, express) ==
    /\ pc = "idle"
    /\ pc' = "direct"
    /\ inflight' = IF LoopEntered THEN With(NoTasks, key, NewTask(size, express)) ELSE NoTasks
    /\ hist' = [HistInit EXCEPT !.calls[key] = Called(express, ~LoopEntered),
                                !.exhausted = IF LoopEntered THEN {} ELSE {key}]
    /\ out' = NoOut
    /\ UNCHANGED <<es, promises, tokenString, config, now, srcStore, dstStore, getSrc, getDst, cmpResult, pending, lastResult>>

CopyObjectResolutionWithStatus(completedCopying) == Returns(<<completedCopying>>)

\* lines 134-136: after the loop the function logs and ends without a return
\* statement, whatever completedCopying is: the promise resolves with undefined
CopyObjectResolution(completedCopying) == Returns(Undefined)

\* line 136: the call has resolved
CopyObjectResolved ==
    /\ pc = "direct"
    /\ DOMAIN inflight = {}
    /\ pc' = "idle"
    /\ out' = CopyObjectResolution(\E k \in SrcKeys : hist.calls[k].ok)
    /\ UNCHANGED <<es, promises, tokenString, config, now, srcStore, dstStore, getSrc, getDst, cmpResult, pending, inflight, lastResult, hist>>

InitCopy ==
    /\ \E cfg \in CopyConfigInputs : config = Constructed(cfg)
    /\ now = 0
    /\ srcStore \in InitialSrcStores
    /\ dstStore \in InitialDstStores
    /\ pc = "idle"
    /\ getSrc = ListIdle
    /\ getDst = ListIdle
    /\ cmpResult = EmptyCmp
    /\ pending = <<>>
    /\ inflight = NoTasks
    /\ lastResult = "none"
    /\ hist = HistInit
    /\ out = NoOut
    /\ tokenString = NoJwt
    /\ es = NoService
    /\ promises = NoPromises

NextCopy ==
    \/ \E k \in SrcKeys, size \in Sizes, express \in BOOLEAN : CopyObject(k, size, express)
    \/ \E k \in SrcKeys : CopyAttemptDone(k)
    \/ \E k \in SrcKeys : CopyAttemptFailed(k)
    \/ CopyObjectResolved

SpecCopy == InitCopy /\ [][NextCopy]_vars

----------------------------------------------------------------------------
(* The constructor called with any configuration (lines 74-94) *)

RequiredFields == {"srcS3", "srcBucket", "srcPrefix", "dstS3", "dstBucket", "dstPrefix"}

\* a required field as the caller may pass it: left out, or given
RequiredInputs == {Undefined, <<1>>}

NullConfig == [null |-> TRUE]

UndefinedConfig == [undefined |-> TRUE]

FullConfigInputs ==
    [srcS3 : RequiredInputs, srcBucket : RequiredInputs, srcPrefix : RequiredInputs,
     dstS3 : RequiredInputs, dstBucket : RequiredInputs, dstPrefix : RequiredInputs,
     maxNumThreads : OptionInputs, maxRetries : OptionInputs]

\* RequireRatchet.notNullOrUndefined(config, 'config'), line 75: throws when
\* its first argument is null or undefined
NotNullOrUndefined(ob) == ob \notin {NullConfig, UndefinedConfig}

\* lines 77-85: this.config is the argument itself, with the two defaults set
ThisConfig(cfg) ==
    [cfg EXCEPT !.maxNumThreads = Constructed(cfg).maxNumThreads,
                !.maxRetries = Constructed(cfg).maxRetries]

NotConstructed == [constructed |-> FALSE]

Construct(cfg) ==
    /\ pc = "new"
    /\ hist' = [arg |-> cfg]
    /\ IF NotNullOrUndefined(cfg)
       THEN /\ config' = ThisConfig(cfg)
            /\ pc' = "idle"
            /\ out' = Returns("this")
       ELSE /\ pc' = "failed"
            /\ out' = Throws("config")
            /\ UNCHANGED config
    /\ UNCHANGED <<es, promises, tokenString, now, srcStore, dstStore, getSrc, getDst, cmpResult, pending, inflight, lastResult>>

\* updateSrcPrefix, lines 88-90
UpdateSrcPrefix(prefix) ==
    /\ pc = "idle"
    /\ config' = [config EXCEPT !.srcPrefix = prefix]
    /\ UNCHANGED <<es, promises, tokenString, now, srcStore, dstStore, pc, getSrc, getDst, cmpResult, pending, inflight, lastResult, hist, out>>

\* updateDstPrefix, lines 92-94
UpdateDstPrefix(prefix) ==
    /\ pc = "idle"
    /\ config' = [config EXCEPT !.dstPrefix = prefix]
    /\ UNCHANGED <<es, promises, tokenString, now, srcStore, dstStore, pc, getSrc, getDst, cmpResult, pending, inflight, lastResult, hist, out>>

InitConfig ==
    /\ config = NotConstructed
    /\ now = 0
    /\ srcStore \in InitialSrcStores
    /\ dstStore \in InitialDstStores
    /\ pc = "new"
    /\ getSrc = ListIdle
    /\ getDst = ListIdle
    /\ cmpResult = EmptyCmp
    /\ pending = <<>>
    /\ inflight = NoTasks
    /\ lastResult = "none"
    /\ hist = HistInit
    /\ out = NoOut
    /\ tokenString = NoJwt
    /\ es = NoService
    /\ promises = NoPromises

NextConfig ==
    \/ \E cfg \in FullConfigInputs \cup {NullConfig, UndefinedConfig} : Construct(cfg)
    \/ \E prefix \in RequiredInputs : UpdateSrcPrefix(prefix)
    \/ \E prefix \in RequiredInputs : UpdateDstPrefix(prefix)

SpecConfig == InitConfig /\ [][NextConfig]_vars

----------------------------------------------------------------------------
(* listObjects called on its own (it is public), on a bucket that another    *)
(* client may write to between two pages                                     *)

ListKeys == {<<"s", "a">>, <<"s", "b">>, <<"s", "c">>, <<"s", "d">>, <<"t", "s">>}

InitialListStores ==
    {[k \in ListKeys |-> IF k \in present THEN OldObj("x") ELSE NoObj] : present \in SUBSET ListKeys}

StoreErrors == {<<"AccessDenied">>, <<"NetworkingError">>}

\* the history of one listObjects call: the token of each listObjectsV2
\* request, each response, and what the store rejected a request with
ListHist == [requests |-> <<>>, pages |-> <<>>, rejectedWith |-> NoError]

\* lines 139-147: the call begins
ListObjects ==
    /\ pc = "idle"
    /\ pc' = "listing"
    /\ getSrc' = ListStarted
    /\ hist' = ListHist
    /\ out' = NoOut
    /\ UNCHANGED <<es, promises, tokenString, config, now, srcStore, dstStore, getDst, cmpResult, pending, inflight, lastResult>>

\* lines 150-158: a listObjectsV2 request is answered
ListObjectsPage ==
    /\ pc = "listing"
    /\ getSrc.st = "run"
    /\ getSrc' = ListAfterPage(getSrc, srcStore, srcPrefix)
    /\ hist' = [hist EXCEPT !.requests = Append(@, getSrc.token),
                            !.pages = Append(@, ListPage(srcStore, srcPrefix, TokenPos(getSrc.token)))]
    /\ UNCHANGED <<es, promises, tokenString, out, config, now, srcStore, dstStore, pc, getDst, cmpResult, pending, inflight, lastResult>>

\* line 150: a listObjectsV2 request is rejected
ListObjectsPageRejected(error) ==
    /\ pc = "listing"
    /\ getSrc.st = "run"
    /\ getSrc' = [ListAfterError(getSrc) EXCEPT !.err = error]
    /\ hist' = [hist EXCEPT !.requests = Append(@, getSrc.token), !.rejectedWith = error]
    /\ UNCHANGED <<es, promises, tokenString, out, config, now, srcStore, dstStore, pc, getDst, cmpResult, pending, inflight, lastResult>>

\* line 160
ListObjectsReturns ==
    /\ pc = "listing"
    /\ getSrc.st = "ok"
    /\ out' = Returns(getSrc.rval)
    /\ pc' = "idle"
    /\ getSrc' = ListIdle
    /\ UNCHANGED <<es, promises, tokenString, config, now, srcStore, dstStore, getDst, cmpResult, pending, inflight, lastResult, hist>>

\* the rejection of line 150 leaves the function: its promise rejects
ListObjectsThrows ==
    /\ pc = "listing"
    /\ getSrc.st = "fail"
    /\ out' = Throws(getSrc.err)
    /\ pc' = "idle"
    /\ getSrc' = ListIdle
    /\ UNCHANGED <<es, promises, tokenString, config, now, srcStore, dstStore, getDst, cmpResult, pending, inflight, lastResult, hist>>

\* another client puts an object while the listing is between two pages
OtherPut(k, size) ==
    /\ pc = "listing"
    /\ getSrc.st = "run"
    /\ now < MaxClock
    /\ now' = now + 1
    /\ srcStore' = [srcStore EXCEPT ![k] = [ETag |-> "y", Size |-> size, LastModified |-> now + 1]]
    /\ UNCHANGED <<es, promises, tokenString, out, config, dstStore, pc, getSrc, getDst, cmpResult, pending, inflight, lastResult, hist>>

\* another client removes an object while the listing is between two pages
OtherDelete(k) ==
    /\ pc = "listing"
    /\ getSrc.st = "run"
    /\ now < MaxClock
    /\ now' = now + 1
    /\ srcStore[k] # NoObj
    /\ srcStore' = [srcStore EXCEPT ![k] = NoObj]
    /\ UNCHANGED <<es, promises, tokenString, out, config, dstStore, pc, getSrc, getDst, cmpResult, pending, inflight, lastResult, hist>>

InitList ==
    /\ config = Constructed([maxNumThreads |-> Undefined, maxRetries |-> Undefined])
    /\ now = 0
    /\ srcStore \in InitialListStores
    /\ dstStore = [k \in DstKeys |-> NoObj]
    /\ pc = "idle"
    /\ getSrc = ListIdle
    /\ getDst = ListIdle
    /\ cmpResult = EmptyCmp
    /\ pending = <<>>
    /\ inflight = NoTasks
    /\ lastResult = "none"
    /\ hist = ListHist
    /\ out = NoOut
    /\ tokenString = NoJwt
    /\ es = NoService
    /\ promises = NoPromises

NextList ==
    \/ ListObjects
    \/ ListObjectsPage
    \/ \E error \in StoreErrors : ListObjectsPageRejected(error)
    \/ ListObjectsReturns
    \/ ListObjectsThrows
    \/ \E k \in ListKeys, size \in Sizes : OtherPut(k, size)
    \/ \E k \in ListKeys : OtherDelete(k)

SpecList == InitList /\ [][NextList]_vars

----------------------------------------------------------------------------
(* JwtRatchet (src/src/common/jwt-ratchet.ts): tokens are created and        *)
(* decoded by ratchets that hold keys; `now` is the clock, in seconds.  A    *)
(* JWT string is modelled by what it carries: the payload that was signed    *)
(* and the secret it was signed with; a signature verifies under that        *)
(* secret and no other.                                                      *)

\* a ratchet as constructed (lines 21-29): the encryption key, a string or an
\* array of strings, and the decrypt-only keys, which may be left out
Ratchet(isArray, encKeys, decGiven, decKeys) ==
    [encryptionKey |-> [isArray |-> isArray, keys |-> encKeys],
     decryptKeys |-> [given |-> decGiven, keys |-> decKeys]]

JwtRatchets ==
    {Ratchet(FALSE, <<"k1">>, TRUE, <<>>),
     Ratchet(TRUE, <<"k1", "k2">>, TRUE, <<>>),
     Ratchet(FALSE, <<"k3">>, TRUE, <<"k1">>),
     Ratchet(FALSE, <<"k3">>, FALSE, <<>>),
     Ratchet(TRUE, <<>>, TRUE, <<"k1">>)}

NoRatchet == [none |-> TRUE]

NullPayload == [null |-> TRUE]

\* the payloads handed to createTokenString: application fields only, none of
\* the registered claims (jti, exp, iat) set by the caller
PayloadInputs ==
    [test : {<<1>>, <<2>>}, name : {Undefined, <<"n">>},
     jti : {Undefined}, exp : {Undefined}, iat : {Undefined}, expiredFlag : {Undefined}]

ExpirationInputs == {Undefined, <<0>>, <<1>>, <<2>>}

OverrideInputs == {Undefined, <<" ">>, <<"k2">>}

ExpiredJwtHandling == {"RETURN_NULL", "THROW_EXCEPTION", "ADD_FLAG"}

\* StringRatchet.trimToNull: null for an absent or blank string
TrimToNull(v) == IF v = Undefined \/ v[1] = " " THEN Undefined ELSE v

\* encryptionKeyArray, lines 117-124: Array.isArray(encKey) ? encKey : [encKey]
EncryptionKeys(r) ==
    IF r.encryptionKey.isArray THEN r.encryptionKey.keys ELSE <<r.encryptionKey.keys[1]>>

\* line 120
EncryptionKeyArrayThrows(r) == Len(EncryptionKeys(r)) < 1

EmptyKeySet == <<"Cannot create JwtRatchet with empty encryption key set">>

DecKeysEncryptionOnly(r) == EncryptionKeys(r)

\* lines 73-77: the encryption keys, then the decrypt-only keys if there are any
DecKeys(r) ==
    IF r.decryptKeys.given THEN EncryptionKeys(r) \o r.decryptKeys.keys ELSE EncryptionKeys(r)

\* jwt.sign(payload, encKey), line 145: the payload gets iat unless it has one
JwtSign(payload, encKey, t) ==
    [payload |-> [payload EXCEPT !.iat = IF @ = Undefined THEN <<t>> ELSE @], secret |-> encKey]

\* jwt.verify(payloadString, decryptKey), line 62, does not throw: the
\* signature verifies and the token has not expired
JwtVerifies(payloadString, decryptKey, t) ==
    /\ payloadString.secret = decryptKey
    /\ payloadString.payload.exp = Undefined \/ t < payloadString.payload.exp[1]

\* invalidSafeDecode, lines 55-67
InvalidSafeDecode(payloadString, decryptKey, t) ==
    IF JwtVerifies(payloadString, decryptKey, t) THEN payloadString.payload ELSE NullPayload

\* the loop of lines 82-91, from index i on
RECURSIVE DecodeFrom(_, _, _, _)
DecodeFrom(payloadString, decKeys, i, t) ==
    IF i > Len(decKeys) THEN NullPayload
    ELSE LET payload == InvalidSafeDecode(payloadString, decKeys[i], t)
         IN  IF payload # NullPayload THEN payload
             ELSE DecodeFrom(payloadString, decKeys, i + 1, t)

\* lines 93-114; the payloads carry no nbf
AfterExpiryCheck(payload, expiredHandling, t) ==
    IF payload = NullPayload THEN Returns(NullPayload)
    ELSE IF payload.exp # Undefined /\ t >= payload.exp[1]
         THEN CASE expiredHandling = "THROW_EXCEPTION" -> Throws(<<"JWT Token was expired">>)
                [] expiredHandling = "ADD_FLAG" -> Returns([payload EXCEPT !.expiredFlag = <<TRUE>>])
                [] OTHER -> Returns(NullPayload)
         ELSE Returns(payload)

\* decodeToken, lines 69-115
DecodeTokenOutcome(r, payloadString, expiredHandling, t) ==
    IF EncryptionKeyArrayThrows(r) THEN Throws(EmptyKeySet)
    ELSE AfterExpiryCheck(DecodeFrom(payloadString, DecKeys(r), 1, t), expiredHandling, t)

\* lines 138-144: jti is set, and exp when expirationSeconds is truthy
Stamped(payload, expirationSeconds, t) ==
    [payload EXCEPT !.jti = <<"guid">>,
                    !.exp = IF expirationSeconds = Undefined \/ expirationSeconds[1] = 0
                            THEN @ ELSE <<t + expirationSeconds[1]>>]

\* lines 133-135: the override key if there is one, else any of the encryption keys
EncKeyChoices(r, overrideEncryptionKey) ==
    IF TrimToNull(overrideEncryptionKey) # Undefined THEN {TrimToNull(overrideEncryptionKey)[1]}
    ELSE {EncryptionKeys(r)[i] : i \in 1..Len(EncryptionKeys(r))}

\* what the properties remember of the last createTokenString and decodeToken
JwtHist ==
    [op |-> "none", payload |-> NullPayload, by |-> NoRatchet, encKey |-> "",
     decodedBy |-> NoRatchet, decodedAt |-> 0]

\* createTokenString, lines 132-147
CreateTokenString(r, payload, expirationSeconds, overrideEncryptionKey) ==
    /\ pc = "idle"
    /\ IF EncKeyChoices(r, overrideEncryptionKey) = {}
       THEN /\ out' = Throws(EmptyKeySet)
            /\ hist' = [JwtHist EXCEPT !.op = "createFailed", !.by = r]
            /\ UNCHANGED tokenString
       ELSE \E encKey \in EncKeyChoices(r, overrideEncryptionKey) :
                /\ tokenString' = JwtSign(Stamped(payload, expirationSeconds, now), encKey, now)
                /\ out' = Returns(tokenString')
                /\ hist' = [JwtHist EXCEPT !.op = "create", !.payload = payload, !.by = r, !.encKey = encKey]
    /\ UNCHANGED <<es, promises, config, now, srcStore, dstStore, pc, getSrc, getDst, cmpResult, pending, inflight, lastResult>>

\* decodeToken of the token the caller holds
DecodeToken(r, expiredHandling) ==
    /\ pc = "idle"
    /\ tokenString # NoJwt
    /\ hist.op \in {"create", "decode"}
    /\ out' = DecodeTokenOutcome(r, tokenString, expiredHandling, now)
    /\ hist' = [hist EXCEPT !.op = "decode", !.decodedBy = r, !.decodedAt = now]
    /\ UNCHANGED <<es, promises, tokenString, config, now, srcStore, dstStore, pc, getSrc, getDst, cmpResult, pending, inflight, lastResult>>

\* a second passes
Tick ==
    /\ pc = "idle"
    /\ now < MaxClock
    /\ now' = now + 1
    /\ UNCHANGED <<es, promises, tokenString, out, config, srcStore, dstStore, pc, getSrc, getDst, cmpResult, pending, inflight, lastResult, hist>>

InitJwt ==
    /\ config = Constructed([maxNumThreads |-> Undefined, maxRetries |-> Undefined])
    /\ now = 0
    /\ srcStore = [k \in SrcKeys |-> NoObj]
    /\ dstStore = [k \in DstKeys |-> NoObj]
    /\ pc = "idle"
    /\ getSrc = ListIdle
    /\ getDst = ListIdle
    /\ cmpResult = EmptyCmp
    /\ pending = <<>>
    /\ inflight = NoTasks
    /\ lastResult = "none"
    /\ hist = JwtHist
    /\ out = NoOut
    /\ tokenString = NoJwt
    /\ es = NoService
    /\ promises = NoPromises

NextJwt ==
    \/ \E r \in JwtRatchets, payload \in PayloadInputs, expirationSeconds \in ExpirationInputs,
          overrideEncryptionKey \in OverrideInputs :
           CreateTokenString(r, payload, expirationSeconds, overrideEncryptionKey)
    \/ \E r \in JwtRatchets, expiredHandling \in ExpiredJwtHandling : DecodeToken(r, expiredHandling)
    \/ Tick

SpecJwt == InitJwt /\ [][NextJwt]_vars

----------------------------------------------------------------------------
(* Vocabulary of the properties *)

\* the source keys of the location: the objects under the source prefix
SourceKeys == {k \in SrcKeys : srcStore[k] # NoObj /\ HasPrefix(k, srcPrefix)}

\* a complete listing of a location as the stores are now
FullList(store, prefix) ==
    LET ks == Listed(store, prefix)
    IN  [i \in 1..Len(ks) |-> S3Obj(ks[i], store[ks[i]])]

\* the compare of the stores as they are now
CompareNow == Compare(FullList(srcStore, srcPrefix), FullList(dstStore, dstPrefix))

\* a startSyncing call has returned a boolean and the caller has not written since
Returned == pc = "idle" /\ lastResult \in {"true", "false"}

\* keys for which this run has called copyObject
Dispatched == {k \in SrcKeys : hist.calls[k].asked # {}}

\* keys whose copyObject call of this run has resolved with every attempt failed
ExhaustedNow == {k \in Dispatched : hist.calls[k].done /\ ~hist.calls[k].ok}

Unclean(cmp) == KeysOf(cmp.needCopy) \cup KeysOf(cmp.diff)

----------------------------------------------------------------------------
(* C1: a startSyncing call that returns a boolean returns true exactly when  *)
(* its last compare (the verification compare if it called copyObject at     *)
(* all, else the initial one) put no key in needCopy and none in diff; that  *)
(* compare is the compare of the stores as they are at the return.           *)

C1_ResultIffLastCompareClean ==
    Returned =>
        /\ hist.compares = IF Dispatched # {} THEN 2 ELSE 1
        /\ cmpResult = CompareNow
        /\ (lastResult = "true") <=> (Unclean(CompareNow) = {})

C1_Witness ==
    /\ Returned
    /\ lastResult = "false"
    /\ hist.compares = 2
    /\ cmpResult.needCopy = <<>>
    /\ cmpResult.diff # <<>>

----------------------------------------------------------------------------
(* C2: when startSyncing returns true, every source key whose translated     *)
(* key was absent from the destination when the call began is at the         *)
(* destination, with the size of the source object.                          *)

AbsentAtStart == {k \in SourceKeys : hist.dstAtStart[DstKeyOf(k)] = NoObj}

C2_Completeness ==
    (Returned /\ lastResult = "true") =>
        \A k \in AbsentAtStart :
            /\ dstStore[DstKeyOf(k)] # NoObj
            /\ dstStore[DstKeyOf(k)].Size = srcStore[k].Size

C2_Witness ==
    /\ Returned
    /\ lastResult = "true"
    /\ Cardinality(AbsentAtStart) = 2
    /\ \E k \in AbsentAtStart : hist.calls[k].n > 1

----------------------------------------------------------------------------
(* C3 as stated: when a startSyncing call has returned true and the source   *)
(* is not written to before the next call, that call returns true, its       *)
(* initial compare puts no key in needCopy or diff, and it calls copyObject   *)
(* for no key.  Taken for the calls that return a boolean, it fails when the  *)
(* caller writes to the destination between the two calls.                   *)

SecondRunReturned == Returned /\ hist.afterTrue

C3_AsStated ==
    SecondRunReturned =>
        /\ lastResult = "true"
        /\ Unclean(hist.initCmp) = {}
        /\ Dispatched = {}

(* C3: when a startSyncing call has returned true and the caller writes to   *)
(* neither store before the next call, that call's initial compare puts no   *)
(* key in needCopy or diff, it calls copyObject for no key and makes no      *)
(* second compare, and it returns true unless one of its listings rejects.   *)

C3_Idempotent ==
    hist.prev = "true" =>
        /\ hist.compares <= 1
        /\ hist.compares = 1 => Unclean(hist.initCmp) = {}
        /\ Dispatched = {}
        /\ pc \in {"compare", "idle"}
        /\ pc = "idle" => lastResult \in {"true", "threw"}

C3_Witness ==
    /\ hist.prev = "true"
    /\ Returned
    /\ lastResult = "true"
    /\ Cardinality(SourceKeys) = 2

----------------------------------------------------------------------------
(* C4: no step of a startSyncing call writes, removes or alters a            *)
(* destination object whose key is not the translation of a source key.      *)

NoCounterpart(dk) == \A k \in SourceKeys : DstKeyOf(k) # dk

SyncStepKeepsTheRest ==
    pc \in SyncPcs => \A dk \in DstKeys : NoCounterpart(dk) => dstStore'[dk] = dstStore[dk]

C4_DeletionNeutral == [][SyncStepKeepsTheRest]_vars

\* a copy has been made while the destination holds an object the caller put
\* there and one whose source object has been deleted
C4_Witness ==
    /\ pc \in SyncPcs
    /\ \E k \in SrcKeys : hist.calls[k].ok
    /\ \E dk \in DstKeys : dstStore[dk] # NoObj /\ NoCounterpart(dk) /\ dstStore[dk].ETag = "y"
    /\ \E dk \in DstKeys : dstStore[dk] # NoObj /\ NoCounterpart(dk) /\ dstStore[dk].ETag = "x"

----------------------------------------------------------------------------
(* C5: while startSyncing is copying, the copyObject calls started and not   *)
(* yet resolved number at most config.maxNumThreads.                         *)

InFlight == Cardinality(DOMAIN inflight)

----------------------------------------------------------------------------
(* C6: the compare puts in diff, and not in existed, every source object     *)
(* whose translated key is at the destination with the same size and an      *)
(* older LastModified.                                                       *)

\* cmpResult is the compare of the stores as they are now: the call has just
\* returned, or its initial compare has ended and no copy has begun
CmpIsCurrent == Returned \/ (pc = "copyNeed" /\ Dispatched = {})

NewerSameSize(k) ==
    /\ dstStore[DstKeyOf(k)] # NoObj
    /\ dstStore[DstKeyOf(k)].Size = srcStore[k].Size
    /\ srcStore[k].LastModified > dstStore[DstKeyOf(k)].LastModified

C6_NewerSourceConflicts ==
    CmpIsCurrent =>
        \A k \in SourceKeys :
            NewerSameSize(k) =>
                /\ k \in KeysOf(cmpResult.diff)
                /\ k \notin KeysOf(cmpResult.existed)
                /\ k \notin KeysOf(cmpResult.needCopy)

C6_Witness ==
    /\ pc = "copyNeed"
    /\ Dispatched = {}
    /\ \E k \in SourceKeys : NewerSameSize(k)
    /\ cmpResult.existed # <<>>

----------------------------------------------------------------------------
(* C7 as stated: a startSyncing call in which some key failed every copy     *)
(* attempt does not throw, it returns false with the key still in needCopy   *)
(* or diff.  It fails when a listing of the verification compare rejects.    *)

RunOver == pc = "idle" /\ lastResult # "none"

C7_AsStated ==
    (RunOver /\ ExhaustedNow # {}) =>
        /\ lastResult = "false"
        /\ ExhaustedNow \subseteq Unclean(cmpResult)

(* C7: a startSyncing call in which some key failed every copy attempt       *)
(* returns false unless a listing of its verification compare rejects (then  *)
(* it throws); the verification compare keeps the key where the initial one  *)
(* put it (needCopy or diff), and so does every later compare, until         *)
(* copyObject is called for the key again or the caller writes to a store.   *)

C7_ExhaustedKeyStays ==
    /\ (RunOver /\ ExhaustedNow # {}) =>
           /\ lastResult \in {"false", "threw"}
           /\ lastResult = "threw" => hist.listFailed = "verify"
           /\ lastResult = "false" =>
                  /\ hist.compares = 2
                  /\ \A k \in ExhaustedNow :
                         /\ k \in KeysOf(hist.initCmp.needCopy) => k \in KeysOf(cmpResult.needCopy)
                         /\ k \in KeysOf(hist.initCmp.diff) => k \in KeysOf(cmpResult.diff)
    /\ hist.compares >= 1 => hist.exhausted \subseteq Unclean(cmpResult)

\* a later call's initial compare has found again a key of diff that the call
\* before it could not copy, while another key was copied
C7_Witness ==
    /\ hist.prev = "false"
    /\ hist.compares = 1
    /\ pc = "copyNeed"
    /\ hist.exhausted # {}
    /\ hist.exhausted \subseteq KeysOf(cmpResult.diff)
    /\ cmpResult.existed # <<>>

----------------------------------------------------------------------------
(* C8: once a listing call of a compare has rejected, the startSyncing call  *)
(* goes no further than that compare and ends by throwing, never by          *)
(* returning a boolean; if it was the initial compare, copyObject has been   *)
(* called for no key and the destination is as it was.                       *)

C8_ListingFailureAborts ==
    hist.listFailed # "no" =>
        /\ pc \in {hist.listFailed, "idle"}
        /\ pc = "idle" => lastResult = "threw"
        /\ hist.listFailed = "compare" =>
               /\ Dispatched = {}
               /\ hist.compares = 0
               /\ dstStore = hist.dstAtStart

\* the call has thrown out of its initial compare, with source keys to copy
\* and a destination listing of more than one page
C8_Witness ==
    /\ pc = "idle"
    /\ lastResult = "threw"
    /\ hist.listFailed = "compare"
    /\ Len(Listed(dstStore, dstPrefix)) > PageSize
    /\ SourceKeys # {}

----------------------------------------------------------------------------
(* C9: one copyObject call makes at most config.maxRetries transfer          *)
(* attempts, each with the strategy it was called with; after an attempt     *)
(* that succeeds the call has resolved and makes no other; a call that has   *)
(* resolved without a success has made exactly config.maxRetries attempts.   *)

CallRespectsRetries(k) ==
    LET c == hist.calls[k]
    IN  /\ c.n <= config.maxRetries
        /\ c.kinds \subseteq c.asked
        /\ c.ok => (c.done /\ k \notin DOMAIN inflight)
        /\ (c.done /\ ~c.ok) => c.n = config.maxRetries
        /\ (k \in DOMAIN inflight) => (~c.done /\ c.n = inflight[k].retries)

C9_RetriesBounded == \A k \in SrcKeys : CallRespectsRetries(k)

\* an express call has resolved after failing all five default attempts
C9_Witness ==
    /\ pc = "direct"
    /\ config.maxRetries = DefaultMaxRetries
    /\ \E k \in SrcKeys :
           /\ hist.calls[k].done
           /\ ~hist.calls[k].ok
           /\ hist.calls[k].kinds = {TRUE}
           /\ hist.calls[k].n = DefaultMaxRetries

----------------------------------------------------------------------------
(* C10: when the verification compare starts, every key the initial compare  *)
(* put in needCopy or diff has had at least one copy attempt, whatever       *)
(* became of the other keys.                                                 *)

C10_EveryKeyAttempted ==
    (pc = "verify" \/ (pc = "idle" /\ hist.compares = 2)) =>
        \A k \in Unclean(hist.initCmp) : hist.calls[k].n >= 1

\* one key of needCopy has exhausted its retries, and the key of diff was
\* copied all the same
C10_Witness ==
    /\ pc = "verify"
    /\ \E k \in KeysOf(hist.initCmp.needCopy) : k \in ExhaustedNow
    /\ \E k \in KeysOf(hist.initCmp.diff) : hist.calls[k].ok

----------------------------------------------------------------------------
(* C11 as stated: what a copyObject call gives its caller when every attempt *)
(* has failed differs from what a call that succeeded gives.                 *)

CopyResolved == pc = "idle" /\ out.kind # "none"

AllAttemptsFailed == \E k \in SrcKeys : hist.calls[k].done /\ ~hist.calls[k].ok

C11_AsStated == (CopyResolved /\ AllAttemptsFailed) => out # CopyObjectResolution(TRUE)

(* C11: a copyObject call never rejects, and its promise resolves with       *)
(* undefined when an attempt succeeded and when every attempt failed alike:  *)
(* the result tells the caller nothing about the copy.                       *)

C11_NoStatusReturned ==
    CopyResolved =>
        /\ \E k \in SrcKeys : hist.calls[k].done
        /\ out = Returns(Undefined)

\* a call has resolved after failing every attempt
C11_Witness ==
    /\ CopyResolved
    /\ AllAttemptsFailed
    /\ \E k \in SrcKeys : hist.calls[k].n = config.maxRetries

----------------------------------------------------------------------------
(* C12 as stated: the constructor called with a configuration that lacks a   *)
(* required field throws, and no synchronizer exists to call a store with.   *)

Lacking(cfg) == {f \in RequiredFields : cfg[f] = Undefined}

ConstructorCalled == pc # "new"

C12_MissingFieldFailsAtConstruction ==
    (ConstructorCalled /\ NotNullOrUndefined(hist.arg) /\ Lacking(hist.arg) # {}) =>
        /\ out.kind = "threw"
        /\ pc = "failed"

----------------------------------------------------------------------------
(* C16 as stated: after construction maxNumThreads is the value supplied     *)
(* when one is supplied and 15 otherwise, and maxRetries is the value        *)
(* supplied when one is supplied and 5 otherwise.                            *)

ConstructedFrom(cfg) == pc = "idle" /\ hist.arg = cfg

SuppliedOr(v, default) == IF v = Undefined THEN default ELSE v[1]

C16_AsStated ==
    \A cfg \in FullConfigInputs :
        ConstructedFrom(cfg) =>
            /\ config.maxNumThreads = SuppliedOr(cfg.maxNumThreads, 15)
            /\ config.maxRetries = SuppliedOr(cfg.maxRetries, 5)

(* C16: after construction maxNumThreads is the value supplied when one is   *)
(* supplied and is not 0, and 15 otherwise; maxRetries is the value supplied *)
(* when one is supplied and is not 0, and 5 otherwise.                       *)

NonZeroOr(v, default) == IF v = Undefined \/ v[1] = 0 THEN default ELSE v[1]

C16_DefaultsWhenAbsentOrZero ==
    \A cfg \in FullConfigInputs :
        ConstructedFrom(cfg) =>
            /\ config.maxNumThreads = NonZeroOr(cfg.maxNumThreads, 15)
            /\ config.maxRetries = NonZeroOr(cfg.maxRetries, 5)

\* constructed with maxNumThreads 0 and maxRetries 2: 15 threads, 2 retries
C16_Witness ==
    /\ pc = "idle"
    /\ hist.arg.maxNumThreads = <<0>>
    /\ hist.arg.maxRetries = <<2>>
    /\ config.maxNumThreads = DefaultMaxNumThreads
    /\ config.maxRetries = 2

----------------------------------------------------------------------------
(* C13: when a listObjects call returns, its first request carried no        *)
(* continuation token, each later one the token of the response before it,   *)
(* every response but the last was truncated and the last was not; the       *)
(* mapping returned has exactly the keys of the responses, each once, each    *)
(* with the record of its last occurrence in them.                           *)

ListReturned == pc = "idle" /\ out.kind = "returned"

RECURSIVE AllContents(_, _)
AllContents(pages, i) ==
    IF i > Len(pages) THEN <<>> ELSE pages[i].Contents \o AllContents(pages, i + 1)

LastOccurrence(all, key) ==
    all[CHOOSE i \in 1..Len(all) : all[i].Key = key /\ \A j \in (i + 1)..Len(all) : all[j].Key # key]

C13_PaginationDrained ==
    ListReturned =>
        LET n == Len(hist.pages)
            all == AllContents(hist.pages, 1)
            rval == out.value
        IN  /\ n >= 1
            /\ Len(hist.requests) = n
            /\ hist.requests[1] = NoToken
            /\ \A i \in 2..n : hist.requests[i] = <<hist.pages[i - 1].NextContinuationToken>>
            /\ \A i \in 1..(n - 1) : hist.pages[i].IsTruncated
            /\ ~hist.pages[n].IsTruncated
            /\ KeysOf(rval) = KeysOf(all)
            /\ \A i, j \in 1..Len(rval) : rval[i].Key = rval[j].Key => i = j
            /\ \A i \in 1..Len(rval) : rval[i] = LastOccurrence(all, rval[i].Key)

\* a key came in two pages, with two records, and the call has returned
C13_Witness ==
    /\ ListReturned
    /\ Len(hist.pages) = 2
    /\ LET all == AllContents(hist.pages, 1)
       IN  \E i, j \in 1..Len(all) : i < j /\ all[i].Key = all[j].Key /\ all[i] # all[j]

----------------------------------------------------------------------------
(* C14: once the store has rejected a request of a listObjects call, the     *)
(* call makes no other request and ends by throwing what the store rejected  *)
(* it with; it never returns a mapping, whatever pages it had fetched.       *)

ListRejected == pc \in {"listing", "idle"} /\ hist.rejectedWith # NoError

C14_NoPartialListing ==
    ListRejected =>
        /\ Len(hist.requests) = Len(hist.pages) + 1
        /\ \/ pc = "listing" /\ getSrc.st = "fail" /\ out = NoOut
           \/ pc = "idle" /\ out = Throws(hist.rejectedWith)

\* the second request was rejected after a first page of two records
C14_Witness ==
    /\ pc = "idle"
    /\ out.kind = "threw"
    /\ Len(hist.pages) = 1
    /\ Len(hist.pages[1].Contents) = PageSize

----------------------------------------------------------------------------
(* C15 as stated: a copy dispatched by a sync run is an express copy when    *)
(* the destination store can reach the source by its own copy operation,     *)
(* and a streamed one when it cannot.                                        *)

MutuallyReachable == srcS3 = dstS3

----------------------------------------------------------------------------
(* C17: a startSyncing call calls copyObject only for keys its initial       *)
(* compare put in needCopy or diff; a key it put in existed is not copied    *)
(* and its destination object stays as it was when the call began.           *)

C17_CopiesOnlyMissingOrChanged ==
    /\ hist.compares = 0 => Dispatched = {}
    /\ hist.compares >= 1 =>
           /\ Dispatched \subseteq Unclean(hist.initCmp)
           /\ \A k \in KeysOf(hist.initCmp.existed) :
                  /\ hist.calls[k] = NoCall
                  /\ dstStore[DstKeyOf(k)] = hist.dstAtStart[DstKeyOf(k)]

\* of two source objects that had been copied, one was changed: the run has
\* copied that one alone and returned true
C17_Witness ==
    /\ Returned
    /\ lastResult = "true"
    /\ Len(hist.initCmp.existed) = 1
    /\ Len(hist.initCmp.diff) = 1
    /\ Dispatched = KeysOf(hist.initCmp.diff)
    /\ \A k \in KeysOf(hist.initCmp.existed) : dstStore[DstKeyOf(k)].ETag = "x"
    /\ \A k \in Dispatched : hist.dstAtStart[DstKeyOf(k)].ETag = "x" /\ srcStore[k].LastModified > 0

----------------------------------------------------------------------------
(* C19: a startSyncing call whose initial compare puts no key in needCopy or *)
(* diff makes that one compare, calls copyObject for no key and starts no    *)
(* second listing; any other call makes two compares, no copy attempt is     *)
(* made before the initial compare has ended, and the listings of the        *)
(* verification compare start only when every copyObject call has resolved.  *)

Listing == getSrc.st # "idle" \/ getDst.st # "idle"

Attempted == {k \in SrcKeys : hist.calls[k].n > 0}

PhaseOrder ==
    /\ pc = "compare" => hist.compares = 0 /\ Dispatched = {} /\ inflight = NoTasks
    /\ pc \in {"copyNeed", "copyDiff"} =>
           hist.compares = 1 /\ Unclean(hist.initCmp) # {} /\ ~Listing
    /\ pc = "verify" =>
           /\ hist.compares = 1
           /\ Unclean(hist.initCmp) # {}
           /\ inflight = NoTasks /\ pending = <<>>
           /\ \A k \in Dispatched : hist.calls[k].done
    /\ Attempted # {} => hist.compares >= 1
    /\ Returned => hist.compares = IF Unclean(hist.initCmp) = {} THEN 1 ELSE 2
    /\ (Returned /\ hist.compares = 1) => Dispatched = {}

\* a listing starts only with the run (the initial compare) or, when the
\* initial compare found keys to copy, once the copies are over
ListingStarts ==
    (~Listing /\ Listing') =>
        \/ pc = "idle" /\ pc' = "compare"
        \/ pc = "copyDiff" /\ pc' = "verify" /\ Unclean(hist.initCmp) # {} /\ inflight = NoTasks

C19_PhaseOrder == []PhaseOrder /\ [][ListingStarts]_vars

\* the run made two compares, after copies of which one needed a retry
C19_Witness ==
    /\ Returned
    /\ hist.compares = 2
    /\ Cardinality(Dispatched) = 2
    /\ \E k \in Dispatched : hist.calls[k].n > 1
    /\ \E k \in Dispatched : hist.calls[k].n = 1

----------------------------------------------------------------------------
(* C20: the compare puts every listed source key in exactly one of needCopy, *)
(* diff and existed, once; a key is in needCopy exactly when the             *)
(* destination has no object under its translated key; a destination key     *)
(* that is the translation of no source key is in none of the lists, nor is  *)
(* any key of the lists translated to it.                                    *)

Classified == cmpResult.needCopy \o cmpResult.diff \o cmpResult.existed

C20_ComparePartitions ==
    CmpIsCurrent =>
        /\ KeysOf(Classified) = SourceKeys
        /\ \A i, j \in 1..Len(Classified) : Classified[i].Key = Classified[j].Key => i = j
        /\ \A k \in SourceKeys : k \in KeysOf(cmpResult.needCopy) <=> dstStore[DstKeyOf(k)] = NoObj
        /\ \A dk \in DstKeys :
               NoCounterpart(dk) =>
                   /\ dk \notin KeysOf(Classified)
                   /\ \A k \in KeysOf(Classified) : DstKeyOf(k) # dk

\* one key in needCopy, one in existed, and the destination holds an object
\* that no source key translates to
C20_Witness ==
    /\ pc = "copyNeed"
    /\ Dispatched = {}
    /\ Len(cmpResult.needCopy) = 1
    /\ Len(cmpResult.existed) = 1
    /\ \E dk \in DstKeys : dstStore[dk] # NoObj /\ HasPrefix(dk, dstPrefix) /\ NoCounterpart(dk)

----------------------------------------------------------------------------
(* C18: a token made by createTokenString and not expired when decodeToken   *)
(* is called is decoded to a payload with the fields of the original         *)
(* payload, by every ratchet that has an encryption key and has the key the  *)
(* token was signed with among its encryption keys or its decrypt-only       *)
(* keys, whichever encryption key createTokenString picked.                  *)

OriginalFields == {"test", "name"}

KeysKnownTo(r) ==
    {r.encryptionKey.keys[i] : i \in 1..Len(r.encryptionKey.keys)}
        \cup (IF r.decryptKeys.given
              THEN {r.decryptKeys.keys[i] : i \in 1..Len(r.decryptKeys.keys)} ELSE {})

NotExpiredAt(t) == tokenString.payload.exp = Undefined \/ t < tokenString.payload.exp[1]

Decodable ==
    /\ hist.op = "decode"
    /\ Len(hist.decodedBy.encryptionKey.keys) >= 1
    /\ hist.encKey \in KeysKnownTo(hist.decodedBy)
    /\ NotExpiredAt(hist.decodedAt)

----------------------------------------------------------------------------
(* C21: the compare puts in diff, and in no other list, every source object  *)
(* whose translated key is at the destination with a different size,         *)
(* whichever of the two LastModified stamps is the later one.                *)

SizeDiffers(k) ==
    /\ dstStore[DstKeyOf(k)] # NoObj
    /\ dstStore[DstKeyOf(k)].Size # srcStore[k].Size

C21_SizeMismatchConflicts ==
    CmpIsCurrent =>
        \A k \in SourceKeys :
            SizeDiffers(k) =>
                /\ k \in KeysOf(cmpResult.diff)
                /\ k \notin KeysOf(cmpResult.existed)
                /\ k \notin KeysOf(cmpResult.needCopy)

\* the sizes differ and the destination object is the newer one
C21_Witness ==
    /\ pc = "copyNeed"
    /\ Dispatched = {}
    /\ \E k \in SourceKeys :
           /\ SizeDiffers(k)
           /\ srcStore[k].LastModified < dstStore[DstKeyOf(k)].LastModified
           /\ k \in KeysOf(cmpResult.diff)

----------------------------------------------------------------------------
(* C22: the compare puts in existed, and in no other list, every source      *)
(* object whose translated key is at the destination with the same size and  *)
(* a LastModified that is not earlier than the source's, whether the two     *)
(* ETags are equal or not.                                                   *)

SameSizeNotNewer(k) ==
    /\ dstStore[DstKeyOf(k)] # NoObj
    /\ dstStore[DstKeyOf(k)].Size = srcStore[k].Size
    /\ srcStore[k].LastModified <= dstStore[DstKeyOf(k)].LastModified

C22_NotNewerSameSizeUnchanged ==
    CmpIsCurrent =>
        \A k \in SourceKeys :
            SameSizeNotNewer(k) =>
                /\ k \in KeysOf(cmpResult.existed)
                /\ k \notin KeysOf(cmpResult.diff)
                /\ k \notin KeysOf(cmpResult.needCopy)

\* equal stamps, different ETags, classified unchanged
C22_Witness ==
    /\ pc = "idle"
    /\ lastResult = "true"
    /\ \E k \in SourceKeys :
           /\ SameSizeNotNewer(k)
           /\ srcStore[k].LastModified = dstStore[DstKeyOf(k)].LastModified
           /\ srcStore[k].ETag # dstStore[DstKeyOf(k)].ETag
           /\ k \in KeysOf(cmpResult.existed)

----------------------------------------------------------------------------
(* Calls that run to their end: startSyncing and copyObject called on a      *)
(* location nobody else writes to, with every store call answered in the     *)
(* end and every continuation that is ready run in the end                   *)

\* the location when the synchronizer is constructed: one or two objects under
\* the source prefix; the destination empty, or with the counterpart of the
\* first of either size, or with that and two more objects (a listing of two
\* pages)
TermSrcStores ==
    {[k \in SrcKeys |-> IF k \in present THEN OldObj("x") ELSE NoObj] :
        present \in {{<<"t", "s">>, <<"s", "a">>}, {<<"t", "s">>, <<"s", "a">>, <<"s", "b">>}}}

TermDstStores ==
    {[k \in DstKeys |-> IF k \in present THEN [ETag |-> "y", Size |-> size, LastModified |-> 0] ELSE NoObj] :
        present \in {{}, {<<"d", "a">>}, {<<"d", "a">>, <<"d", "b">>, <<"d", "c">>}}, size \in Sizes}

\* the pool with calls waiting (one copy at a time) and without, a retry loop
\* that goes round once or twice
TermConfigInputs == [maxNumThreads : {Undefined, <<1>>}, maxRetries : {<<1>>, <<2>>}]

InitTerm ==
    /\ \E cfg \in TermConfigInputs : config = Constructed(cfg)
    /\ now = 0
    /\ srcStore \in TermSrcStores
    /\ dstStore \in TermDstStores
    /\ pc = "idle"
    /\ getSrc = ListIdle
    /\ getDst = ListIdle
    /\ cmpResult = EmptyCmp
    /\ pending = <<>>
    /\ inflight = NoTasks
    /\ lastResult = "none"
    /\ hist = HistInit
    /\ out = NoOut
    /\ tokenString = NoJwt
    /\ es = NoService
    /\ promises = NoPromises

\* the caller has made no call yet: each behaviour follows one call, made on
\* one of the locations above, to its end
NoCallYet == lastResult = "none" /\ out = NoOut /\ hist = HistInit

NextTerm ==
    \/ NoCallYet /\ StartSyncing
    \/ NoCallYet /\ \E k \in SrcKeys, size \in Sizes, express \in BOOLEAN : CopyObject(k, size, express)
    \/ ListSrcPage
    \/ ListSrcError
    \/ ListDstPage
    \/ ListDstError
    \/ CompareThrows
    \/ CompareInitial
    \/ CompareVerify
    \/ CopyStart
    \/ \E k \in SrcKeys : CopyAttemptDone(k)
    \/ \E k \in SrcKeys : CopyAttemptFailed(k)
    \/ NeedCopyDone
    \/ DiffDone
    \/ CopyObjectResolved

\* a continuation of the running call that is ready to run
Continues ==
    \/ CompareThrows
    \/ CompareInitial
    \/ CompareVerify
    \/ CopyStart
    \/ NeedCopyDone
    \/ DiffDone
    \/ CopyObjectResolved

\* every store call returns or fails in the end, and the event loop runs every
\* continuation that is ready
FairTerm ==
    /\ WF_vars(ListSrcError \/ ListSrcPage)
    /\ WF_vars(ListDstError \/ ListDstPage)
    /\ \A k \in SrcKeys : WF_vars(CopyAttemptFailed(k) \/ CopyAttemptDone(k))
    /\ WF_vars(Continues)

SpecTerm == InitTerm /\ [][NextTerm]_vars /\ FairTerm

----------------------------------------------------------------------------
(* C23: with every store call answered in the end, every startSyncing call   *)
(* ends by returning a boolean or throwing, and every copyObject call        *)
(* resolves, also the one whose every attempt failed.                        *)

SyncRunning == pc \in SyncPcs

SyncCompleted == pc = "idle" /\ lastResult \in {"true", "false", "threw"}

CopyRunning == pc = "direct"

CopyCompleted == pc = "idle" /\ out # NoOut

C23_Termination == (SyncRunning ~> SyncCompleted) /\ (CopyRunning ~> CopyCompleted)

\* a run has returned after listing two pages of the destination, copying and
\* verifying, and one of its copyObject calls resolved after failing as often
\* as maxRetries allows
C23_Witness ==
    /\ SyncCompleted
    /\ hist.compares = 2
    /\ hist.initCmp.diff # <<>>
    /\ Cardinality({dk \in DstKeys : HasPrefix(dk, dstPrefix) /\ hist.dstAtStart[dk] # NoObj}) > PageSize
    /\ \E k \in SrcKeys :
           /\ hist.calls[k].done
           /\ ~hist.calls[k].ok
           /\ hist.calls[k].n = config.maxRetries
           /\ config.maxRetries = 2

----------------------------------------------------------------------------
(* C24: within the copy passes of one startSyncing call no source key is     *)
(* handed to copyObject twice, and the keys handed to it, in flight together *)
(* or one after the other, are translated to different destination keys.     *)

\* the keys the running pass has still to start
Queued == KeysOf(pending)

C24_DisjointDestinationKeys ==
    pc \in {"copyNeed", "copyDiff"} =>
        /\ \A i, j \in 1..Len(pending) : pending[i].Key = pending[j].Key => i = j
        /\ Queued \cap Dispatched = {}
        /\ DOMAIN inflight \subseteq Dispatched
        /\ \A k1, k2 \in Dispatched \cup Queued : k1 # k2 => DstKeyOf(k1) # DstKeyOf(k2)

\* two copyObject calls of one pass in flight together
C24_Witness ==
    /\ pc \in {"copyNeed", "copyDiff"}
    /\ Cardinality(DOMAIN inflight) = 2
    /\ Cardinality(Dispatched) = 2

----------------------------------------------------------------------------
(* EnvironmentService (src/unnamed/part_002, lines 52-110): one service     *)
(* object, its provider, and the callers of getConfig.  A promise is         *)
(* settled by one event and the code awaiting it goes on in a later one.     *)

MaxGetConfigCalls == 3
FetchCap == 3

Names == {"a", "b"}

\* lines 55-61
DefaultEnvironmentServiceConfig == [maxRetries |-> 3, backoffMultiplierMS |-> 500]

\* the cfg argument of the constructor: left out, or given
CfgInputs ==
    {Undefined} \cup {<<[maxRetries |-> m, backoffMultiplierMS |-> 500]>> : m \in {1, 2}}

\* lines 63-69, with a provider: cfg takes its default when it is left out
EnvironmentService(cfgArg) ==
    [cfg |-> IF cfgArg = Undefined THEN DefaultEnvironmentServiceConfig ELSE cfgArg[1],
     readPromiseCache |-> [n \in Names |-> Undefined]]

\* what provider.fetchConfig may resolve with: a configuration, or a falsy value
ProviderReturns == {"config", "null"}

FalsyReturns == {"null"}

\* `!rval`
NotRval(u) == u.rval \in FalsyReturns

\* the counts of provider calls stop at FetchCap
Counted(n) == Min(n + 1, FetchCap)

HasNever(cache, name) == FALSE

\* readPromiseCache.has(name), line 73
Has(cache, name) == cache[name] # Undefined

\* getConfigUncached from the test of its loop (line 85) to its next await or
\* its end: line 88 calls the provider and awaits it, line 106 throws, line 108
\* returns
LoopTest(u, cfg) ==
    IF NotRval(u) /\ u.tryCount < cfg.maxRetries
    THEN [u EXCEPT !.pc = "fetching", !.fetched = Counted(@)]
    ELSE IF NotRval(u) THEN [u EXCEPT !.pc = "rejected"]
    ELSE [u EXCEPT !.pc = "resolved"]

\* lines 82-83 and the first turn of the loop; fetched and onlyThrew are for
\* the properties: the fetchConfig calls this call has made, and whether each
\* of them that has settled threw
GetConfigUncached(name, cfg) ==
    LoopTest([name |-> name, pc |-> "start", tryCount |-> 1, rval |-> "null",
              settledWith |-> "none", fetched |-> 0, onlyThrew |-> TRUE], cfg)

\* getConfig is an async function: each call returns a promise of its own,
\* resolved with the promise it takes from the cache (line 78)
AsyncPromise(j) == <<"getConfig", j>>

EnvHist == [fetches |-> [n \in Names |-> 0]]  \* the provider's count of fetchConfig calls per name

\* lines 71-79
GetConfig(name) ==
    /\ es # NoService
    /\ Len(promises.returned) < MaxGetConfigCalls
    /\ LET has == Has(es.readPromiseCache, name)
           u == GetConfigUncached(name, es.cfg)
           uncached == IF has THEN promises.uncached ELSE Append(promises.uncached, u)
           cache == IF has THEN es.readPromiseCache
                    ELSE [es.readPromiseCache EXCEPT ![name] = <<Len(uncached)>>]
           j == Len(promises.returned) + 1
       IN  /\ es' = [es EXCEPT !.readPromiseCache = cache]
           /\ promises' = [uncached |-> uncached,
                           returned |-> Append(promises.returned,
                                               [name |-> name,
                                                promise |-> AsyncPromise(j),
                                                follows |-> cache[name][1],
                                                found |-> IF has THEN uncached[cache[name][1]].pc ELSE "nothing"])]
           /\ hist' = [hist EXCEPT !.fetches[name] =
                           IF ~has /\ u.pc = "fetching" THEN Counted(@) ELSE @]
           /\ out' = Returns(AsyncPromise(j))
    /\ UNCHANGED <<tokenString, config, now, srcStore, dstStore, pc, getSrc, getDst, cmpResult, pending, inflight, lastResult>>

\* the promise of provider.fetchConfig settles: it resolves with a value or rejects
ProviderSettles(i, outcome) ==
    /\ i \in 1..Len(promises.uncached)
    /\ promises.uncached[i].pc = "fetching"
    /\ promises' = [promises EXCEPT !.uncached[i] = [@ EXCEPT !.pc = "fetched", !.settledWith = outcome]]
    /\ UNCHANGED <<es, hist, out, tokenString, config, now, srcStore, dstStore, pc, getSrc, getDst, cmpResult, pending, inflight, lastResult>>

\* the await of line 88 goes on: with the value (rval is assigned, the loop is
\* tested again), or in the catch block up to the await of line 100
Resume(i) ==
    /\ i \in 1..Len(promises.uncached)
    /\ promises.uncached[i].pc = "fetched"
    /\ LET u == promises.uncached[i]
           v == IF u.settledWith = "threw"
                THEN [u EXCEPT !.pc = "waiting", !.settledWith = "none"]
                ELSE LoopTest([u EXCEPT !.rval = u.settledWith, !.settledWith = "none",
                                        !.onlyThrew = FALSE], es.cfg)
       IN  /\ promises' = [promises EXCEPT !.uncached[i] = v]
           /\ hist' = [hist EXCEPT !.fetches[u.name] = IF v.pc = "fetching" THEN Counted(@) ELSE @]
    /\ UNCHANGED <<es, out, tokenString, config, now, srcStore, dstStore, pc, getSrc, getDst, cmpResult, pending, inflight, lastResult>>

\* PromiseRatchet.wait(waitMS) resolves: line 101, then the loop is tested again
WaitResolves(i) ==
    /\ i \in 1..Len(promises.uncached)
    /\ promises.uncached[i].pc = "waiting"
    /\ LET u == promises.uncached[i]
           v == LoopTest([u EXCEPT !.tryCount = @ + 1], es.cfg)
       IN  /\ promises' = [promises EXCEPT !.uncached[i] = v]
           /\ hist' = [hist EXCEPT !.fetches[u.name] = IF v.pc = "fetching" THEN Counted(@) ELSE @]
    /\ UNCHANGED <<es, out, tokenString, config, now, srcStore, dstStore, pc, getSrc, getDst, cmpResult, pending, inflight, lastResult>>

InitEnv ==
    /\ config = Constructed([maxNumThreads |-> Undefined, maxRetries |-> Undefined])
    /\ now = 0
    /\ srcStore = [k \in SrcKeys |-> NoObj]
    /\ dstStore = [k \in DstKeys |-> NoObj]
    /\ pc = "idle"
    /\ getSrc = ListIdle
    /\ getDst = ListIdle
    /\ cmpResult = EmptyCmp
    /\ pending = <<>>
    /\ inflight = NoTasks
    /\ lastResult = "none"
    /\ hist = EnvHist
    /\ out = NoOut
    /\ tokenString = NoJwt
    /\ \E cfgArg \in CfgInputs : es = EnvironmentService(cfgArg)
    /\ promises = NoPromises

NextEnv ==
    \/ \E name \in Names : GetConfig(name)
    \/ \E i \in 1..MaxGetConfigCalls, outcome \in ProviderReturns \cup {"threw"} : ProviderSettles(i, outcome)
    \/ \E i \in 1..MaxGetConfigCalls : Resume(i)
    \/ \E i \in 1..MaxGetConfigCalls : WaitResolves(i)

\* every fetchConfig promise settles and every wait resolves in the end, and
\* the event loop runs every continuation that is ready
FairEnv ==
    \A i \in 1..MaxGetConfigCalls :
        /\ WF_vars(\E outcome \in ProviderReturns \cup {"threw"} : ProviderSettles(i, outcome))
        /\ WF_vars(Resume(i))
        /\ WF_vars(WaitResolves(i))

SpecEnv == InitEnv /\ [][NextEnv]_vars /\ FairEnv

----------------------------------------------------------------------------
(* C25 as stated: for one name every getConfig call gets the same promise,   *)
(* and the provider is called only by the getConfigUncached call that the    *)
(* first of them started.                                                    *)

CallsFor(n) == {j \in 1..Len(promises.returned) : promises.returned[j].name = n}

FetchSequencesFor(n) == {i \in 1..Len(promises.uncached) : promises.uncached[i].name = n}

\* the provider has been called for a name as often as the one
\* getConfigUncached call in the cache for that name has called it
OneFetchSequence(n) ==
    /\ Cardinality(FetchSequencesFor(n)) <= 1
    /\ CallsFor(n) # {} <=> es.readPromiseCache[n] # Undefined
    /\ hist.fetches[n] = IF es.readPromiseCache[n] = Undefined THEN 0
                         ELSE promises.uncached[es.readPromiseCache[n][1]].fetched

C25_AsStated ==
    \A n \in Names :
        /\ OneFetchSequence(n)
        /\ \A j1, j2 \in CallsFor(n) : promises.returned[j1].promise = promises.returned[j2].promise

(* C25: for one name there is at most one getConfigUncached call, started by *)
(* the first getConfig call for that name; every getConfig call for the name *)
(* returns a promise of its own that is resolved with the promise of that    *)
(* one call, and the provider is called for the name only by that call, also *)
(* after it has failed.                                                      *)
C25_OneFetchSequencePerName ==
    \A n \in Names :
        /\ OneFetchSequence(n)
        /\ \A j \in CallsFor(n) :
               /\ es.readPromiseCache[n] = <<promises.returned[j].follows>>
               /\ promises.uncached[promises.returned[j].follows].name = n
        /\ \A j1, j2 \in CallsFor(n) :
               promises.returned[j1].promise = promises.returned[j2].promise => j1 = j2

\* a getConfig call found the failed promise in the cache, after another had
\* found it pending; the provider had been called twice
C25_Witness ==
    \E n \in Names :
        /\ \E j \in CallsFor(n) : promises.returned[j].found = "rejected"
        /\ \E j \in CallsFor(n) : promises.returned[j].found \in {"fetching", "fetched", "waiting"}
        /\ hist.fetches[n] = 2

----------------------------------------------------------------------------
(* C26 as stated: a getConfigUncached call whose every fetchConfig call      *)
(* threw fails only after it has called the provider cfg.maxRetries times,   *)
(* and a call that has resolved resolved with the configuration a fetch      *)
(* returned.                                                                 *)

C26_TriedMaxRetriesTimes ==
    \A i \in 1..Len(promises.uncached) :
        LET u == promises.uncached[i]
        IN  /\ u.pc = "rejected" /\ u.onlyThrew => u.fetched = es.cfg.maxRetries
            /\ u.pc = "resolved" => u.rval = "config"

----------------------------------------------------------------------------
(* C27 as stated: the promise of every getConfig call is settled in the end, *)
(* whatever the provider's promises are settled with.                        *)

Settled(j) ==
    /\ j <= Len(promises.returned)
    /\ promises.uncached[promises.returned[j].follows].pc \in {"resolved", "rejected"}

C27_EveryCallSettles ==
    \A j \in 1..MaxGetConfigCalls : (j <= Len(promises.returned)) ~> Settled(j)

====
